---- MODULE Spec2Model ----
(***************************************************************************)
(* Model of the BoardGameGeek scraper (index.ts): the normalisation of one *)
(* fetched item (parseGame and the poll scorers) and the batch ingestion   *)
(* loop with its run statistics.                                           *)
(*                                                                         *)
(* Optional values (undefined / null in the source) are sequences of       *)
(* length 0 or 1: None is the absent value, Some(x) a present one.         *)
(* Time is an integer number of milliseconds that advances only at the     *)
(* suspension points of the script (the awaits); synchronous code between  *)
(* two awaits takes no time.                                               *)
(***************************************************************************)
EXTENDS Integers, Sequences, FiniteSets, TLC

\* ---------------------------------------------------------------- bounds
MaxRows == 3        \* rows of the key source: 0..MaxRows
MaxBatchSize == 2   \* --batchsize: 1..MaxBatchSize
MaxSkip == 2        \* --skip: absent or 0..MaxSkip
MaxThrows == 2      \* transport errors raised by the remote source in a run
MaxVotes == 9       \* votes of one option of a player-count group
MaxAgeVotes == 23   \* votes of one option of the age poll
MaxTotalVotes == 40 \* totalvotes of the age poll
MaxRecs == 3        \* length of a recommendation list handed to the top pick

\* ------------------------------------------------------ program constants
sleepTime == 5000
timeBetweenRequests == 5000

\* --------------------------------------------------------------- options
None == <<>>
Some(x) == <<x>>

nullGuard(value, defaultValue) ==
  IF value = None THEN defaultValue ELSE value[1]

Min(a, b) == IF a < b THEN a ELSE b
Max(a, b) == IF a > b THEN a ELSE b

\* The nearest integer to the rational p / q, q > 0, halves towards
\* +infinity: Math.round of the exact quotient.
MathRound(p, q) == (2 * p + q) \div (2 * q)

\* Variant of MathCeil that rounds down.
MathFloor(p, q) == p \div q

\* Math.ceil(p / q) for p >= 0, q > 0
MathCeil(p, q) == (p + q - 1) \div q

\* ------------------------------------------- double-precision arithmetic
\* The scores are computed in IEEE 754 binary64: (p / q) * 100 rounds twice
\* before Math.round.  A double is kept as an integer of up to 60 bits
\* times a power of two; the integer is a little-endian sequence of 13-bit
\* limbs, so that no intermediate value leaves 32 bits.
RECURSIVE Pow2(_)
Pow2(n) == IF n = 0 THEN 1 ELSE 2 * Pow2(n - 1)

\* least j with a * 2^j >= b
RECURSIVE ShiftUp(_, _)
ShiftUp(a, b) == IF a >= b THEN 0 ELSE 1 + ShiftUp(2 * a, b)

\* greatest j with b * 2^j <= a
RECURSIVE ShiftDown(_, _)
ShiftDown(a, b) == IF 2 * b > a THEN 0 ELSE 1 + ShiftDown(a, 2 * b)

\* limbs + c, the carry propagated
RECURSIVE Carry(_, _)
Carry(limbs, c) ==
  IF limbs = <<>> THEN (IF c = 0 THEN <<>> ELSE <<c>>)
  ELSE IF Len(limbs) = 1 THEN <<limbs[1] + c>>
  ELSE <<(limbs[1] + c) % 8192>>
       \o Carry(Tail(limbs), (limbs[1] + c) \div 8192)

\* limbs * m + c
RECURSIVE MulSmall(_, _, _)
MulSmall(limbs, m, c) ==
  IF Len(limbs) = 1 THEN <<limbs[1] * m + c>>
  ELSE <<(limbs[1] * m + c) % 8192>>
       \o MulSmall(Tail(limbs), m, (limbs[1] * m + c) \div 8192)

\* floor(limbs / 2^s), for a result that fits an integer
RECURSIVE FloorShift(_, _)
FloorShift(limbs, s) ==
  IF limbs = <<>> THEN 0
  ELSE (IF s <= 0 THEN limbs[1] * Pow2(0 - s)
        ELSE IF s < 13 THEN limbs[1] \div Pow2(s)
        ELSE 0)
       + FloorShift(Tail(limbs), s - 13)

\* limbs is a multiple of 2^s
RECURSIVE IsMultiple(_, _)
IsMultiple(limbs, s) ==
  IF limbs = <<>> \/ s <= 0 THEN TRUE
  ELSE IF s < 13 \/ Len(limbs) = 1
       THEN limbs[1] % Pow2(Min(s, 26)) = 0
  ELSE limbs[1] = 0 /\ IsMultiple(Tail(limbs), s - 13)

\* number of bits of n > 0
RECURSIVE BitLength(_)
BitLength(n) == IF n = 0 THEN 0 ELSE 1 + BitLength(n \div 2)

\* The 53-bit significand of the double nearest to a / b, for 1 <= a / b < 2:
\* a / b * 2^52 rounded to nearest, ties to even.
Significand(a, b) ==
  LET r0 == a - b
      q1 == (r0 * 8192) \div b
      r1 == (r0 * 8192) % b
      q2 == (r1 * 8192) \div b
      r2 == (r1 * 8192) % b
      q3 == (r2 * 8192) \div b
      r3 == (r2 * 8192) % b
      q4 == (r3 * 8192) \div b
      r4 == (r3 * 8192) % b
      up == 2 * r4 > b \/ (2 * r4 = b /\ q4 % 2 = 1)
  IN Carry(<<q4, q3, q2, q1, 1>>, IF up THEN 1 ELSE 0)

\* limbs rounded to 53 significant bits, ties to even; the top limb holds
\* the bits from 2^52 up.
RoundTo53(limbs) ==
  LET k == BitLength(limbs[5]) - 1
      low == limbs[1] % Pow2(k)
      half == Pow2(k) \div 2
      up == low > half \/ (low = half /\ (limbs[1] \div Pow2(k)) % 2 = 1)
  IN IF k = 0 THEN limbs
     ELSE Carry([limbs EXCEPT ![1] = @ - low], IF up THEN Pow2(k) ELSE 0)

\* Math.round((p / q) * 100) for integers p and q > 0: the quotient and the
\* product are each rounded to a double, Math.round is floor(y + 0.5).
Percent(p, q) ==
  IF p = 0 THEN 0
  ELSE LET a == IF p < 0 THEN 0 - p ELSE p
           up == ShiftUp(a, q)
           down == ShiftDown(a, q)
           x == Significand(a * Pow2(up), q * Pow2(down))
           y == RoundTo53(MulSmall(x, 100, 0))
           t == 52 - (down - up)
           twice == FloorShift(y, t - 1)
       IN IF p > 0 THEN (twice + 1) \div 2
          ELSE IF IsMultiple(y, t - 1) THEN 0 - (twice \div 2)
          ELSE 0 - ((twice + 1) \div 2)

\* Array.prototype.find on a poll list: the first poll of that name
RECURSIVE FindPoll(_, _)
FindPoll(polls, name) ==
  IF polls = <<>> THEN None
  ELSE IF polls[1].name = name THEN Some(polls[1])
  ELSE FindPoll(Tail(polls), name)

\* Array.prototype.filter(...).map(link => link.value)
RECURSIVE LinkValues(_, _)
LinkValues(links, type) ==
  IF links = <<>> THEN <<>>
  ELSE (IF links[1].type = type THEN <<links[1].value>> ELSE <<>>)
       \o LinkValues(Tail(links), type)

\* --------------------------------------------------- age poll (l.114-155)
\* Variant of AgeVotes that divides the total by the option's votes.
RECURSIVE AgeVotesInverted(_, _)
AgeVotesInverted(resultItemList, totalVotes) ==
  IF resultItemList = <<>> THEN <<>>
  ELSE LET ageVote == resultItemList[1]
           numOfVotes == nullGuard(ageVote.numvotes, 0)
       IN (IF numOfVotes = 0 THEN <<>>
           ELSE << [value |-> ageVote.value,
                    score |-> Percent(totalVotes, numOfVotes)] >>)
          \o AgeVotesInverted(Tail(resultItemList), totalVotes)

\* The inner forEach of parsePlayerAgePoll over one group's option list.
RECURSIVE AgeVotes(_, _)
AgeVotes(resultItemList, totalVotes) ==
  IF resultItemList = <<>> THEN <<>>
  ELSE LET ageVote == resultItemList[1]
           numOfVotes == nullGuard(ageVote.numvotes, 0)
       IN (IF numOfVotes = 0 THEN <<>>
           ELSE << [value |-> ageVote.value,
                    score |-> Percent(numOfVotes, totalVotes)] >>)
          \o AgeVotes(Tail(resultItemList), totalVotes)

\* The outer forEach: item.resultItemList.forEach is a TypeError when the
\* group has no option list.  The result is [threw, value].
RECURSIVE AgeGroups(_, _)
AgeGroups(results, totalVotes) ==
  IF results = <<>> THEN [threw |-> FALSE, value |-> <<>>]
  ELSE IF results[1].resultItemList = None
       THEN [threw |-> TRUE, value |-> <<>>]
  ELSE LET rest == AgeGroups(Tail(results), totalVotes)
       IN [threw |-> rest.threw,
           value |-> AgeVotes(results[1].resultItemList[1], totalVotes)
                     \o rest.value]

parsePlayerAgePoll(pollResult) ==
  IF pollResult.results = None \/ pollResult.results = Some(<<>>)
  THEN [threw |-> FALSE, value |-> None]
  ELSE LET totalVotes == nullGuard(pollResult.totalvotes, 0)
       IN IF totalVotes = 0 THEN [threw |-> FALSE, value |-> None]
          ELSE LET r == AgeGroups(pollResult.results[1], totalVotes)
               IN IF r.threw THEN [threw |-> TRUE, value |-> None]
                  ELSE [threw |-> FALSE,
                        value |-> IF r.value = <<>> THEN None
                                  ELSE Some(r.value)]

calculateRecommendedAgeScore(polls) ==
  LET poll == IF polls = None THEN None
              ELSE FindPoll(polls[1], "suggested_playerage")
  IN IF poll = None THEN [threw |-> FALSE, value |-> None]
     ELSE parsePlayerAgePoll(poll[1])

\* ------------------------------------------ player-count poll (l.157-220)
\* The reduce over one group's options.  acc.score holds halves, so the
\* accumulator keeps twice the score: score2 = 2 * acc.score.
RECURSIVE Summary(_, _)
Summary(resultItemList, acc) ==
  IF resultItemList = <<>> THEN acc
  ELSE LET item == resultItemList[1]
           numOfVotes == nullGuard(item.numvotes, 0)
           next ==
             IF numOfVotes = 0 THEN acc
             ELSE IF item.value = "Best"
               THEN [score2 |-> acc.score2 + 2 * numOfVotes,
                     votes |-> acc.votes + numOfVotes]
             ELSE IF item.value = "Recommended"
               THEN [score2 |-> acc.score2 + numOfVotes,
                     votes |-> acc.votes + numOfVotes]
             ELSE IF item.value = "Not Recommended"
               THEN [score2 |-> acc.score2 - numOfVotes,
                     votes |-> acc.votes + numOfVotes]
             ELSE acc
       IN Summary(Tail(resultItemList), next)

RECURSIVE NumPlayersGroups(_)
NumPlayersGroups(results) ==
  IF results = <<>> THEN <<>>
  ELSE LET item == results[1]
           rest == NumPlayersGroups(Tail(results))
       IN IF item.numplayers = None \/ item.resultItemList = None THEN rest
          ELSE LET summary == Summary(item.resultItemList[1],
                                      [score2 |-> 0, votes |-> 0])
               IN (IF summary.votes # 0
                   THEN << [value |-> item.numplayers[1],
                            score |-> Max(0, Percent(summary.score2,
                                                     2 * summary.votes))] >>
                   ELSE <<>>) \o rest

parseNumPlayersPoll(pollResult) ==
  IF pollResult.results = None \/ pollResult.results = Some(<<>>)
  THEN None
  ELSE LET result == NumPlayersGroups(pollResult.results[1])
       IN IF result = <<>> THEN None ELSE Some(result)

calculateRecommendedPlayerCountScore(polls) ==
  LET poll == IF polls = None THEN None
              ELSE FindPoll(polls[1], "suggested_numplayers")
  IN IF poll = None THEN None ELSE parseNumPlayersPoll(poll[1])

\* --------------------------------------------- top recommendation (l.222)
\* Variant of TopReduce that lets a later equal score win.
RECURSIVE TopReduceLast(_, _)
TopReduceLast(recommendations, acc) ==
  IF recommendations = <<>> THEN acc
  ELSE TopReduceLast(Tail(recommendations),
                     IF recommendations[1].score >= acc.score
                     THEN recommendations[1] ELSE acc)

\* The reduce of l.231-234, acc starting as the first element.
RECURSIVE TopReduce(_, _)
TopReduce(recommendations, acc) ==
  IF recommendations = <<>> THEN acc
  ELSE TopReduce(Tail(recommendations),
                 IF recommendations[1].score > acc.score
                 THEN recommendations[1] ELSE acc)

getTopRecommendation(recommendations) ==
  IF \/ recommendations = None
     \/ recommendations = Some(<<>>)
     \/ \A i \in 1..Len(recommendations[1]) : recommendations[1][i].score = 0
  THEN None
  ELSE Some(TopReduce(recommendations[1], recommendations[1][1]))

\* thing?.value of an optional recommendation
SuggestedValue(top) == IF top = None THEN None ELSE Some(top[1].value)

\* ----------------------------------------------------- parseGame (l.244)
\* The result is [threw, value]: threw when the evaluation raises a
\* TypeError (thing.statistics.ratings of an item without statistics, or the
\* age poll above), otherwise value holds the Game.  The text and media
\* fields are copied or cleaned strings and are left out of the record.
parseGame(thing) ==
  LET playerCountPoll == calculateRecommendedPlayerCountScore(thing.polls)
      agePoll == calculateRecommendedAgeScore(thing.polls)
  IN IF agePoll.threw \/ thing.statistics = None
     THEN [threw |-> TRUE, value |-> None]
     ELSE [threw |-> FALSE,
           value |-> Some(
             [id |-> thing.id,
              rating |-> [average |-> thing.statistics[1].ratings.average,
                          bayesian |-> thing.statistics[1].ratings.bayesaverage,
                          stddev |-> thing.statistics[1].ratings.stddev],
              complexity |-> thing.statistics[1].ratings.averageweight,
              categories |-> IF thing.links = None THEN <<>>
                             ELSE LinkValues(thing.links[1], "boardgamecategory"),
              mechanics |-> IF thing.links = None THEN <<>>
                            ELSE LinkValues(thing.links[1], "boardgamemechanic"),
              playerCount |-> [min |-> thing.minplayers,
                               max |-> thing.maxplayers,
                               suggested |-> SuggestedValue(
                                   getTopRecommendation(playerCountPoll)),
                               pollResults |-> playerCountPoll],
              age |-> [rated |-> thing.minage,
                       suggested |-> SuggestedValue(
                           getTopRecommendation(agePoll.value)),
                       pollResults |-> agePoll.value]])]

\* things.map(parseGame) raises as soon as one item does
MapThrows(things) == \E i \in 1..Len(things) : parseGame(things[i]).threw

\* l.372: things.map(parseGame), the games when no item raises
Mapped(items) ==
  IF MapThrows(items) THEN [threw |-> TRUE, value |-> <<>>]
  ELSE [threw |-> FALSE,
        value |-> [i \in 1..Len(items) |-> parseGame(items[i]).value[1]]]

\* ------------------------------------------- items the remote may return
Vote(v, n) == [value |-> v, numvotes |-> Some(n)]

AgePolls ==
  LET poll(total, results) ==
        [name |-> "suggested_playerage", totalvotes |-> total,
         results |-> results]
      group == [numplayers |-> None,
                resultItemList |->
                  Some(<<Vote("8", 3), Vote("10", 1), Vote("12", 0)>>)]
  IN { poll(Some(4), Some(<<group>>)),
       poll(Some(4), None),
       poll(None, Some(<<group>>)),
       poll(Some(4), Some(<<[numplayers |-> None,
                             resultItemList |-> None]>>)) }

NumPlayersPolls ==
  LET poll(results) ==
        [name |-> "suggested_numplayers", totalvotes |-> Some(4),
         results |-> results]
      one == [numplayers |-> Some(1),
              resultItemList |->
                Some(<<Vote("Best", 0), Vote("Recommended", 1),
                       Vote("Not Recommended", 3)>>)]
      two == [numplayers |-> Some(2),
              resultItemList |->
                Some(<<Vote("Best", 3), Vote("Recommended", 1),
                       Vote("Not Recommended", 0)>>)]
  IN { poll(Some(<<one, two>>)),
       poll(None),
       poll(Some(<<one, [numplayers |-> Some(2),
                         resultItemList |-> None]>>)) }

GoodAgePoll == CHOOSE p \in AgePolls :
                 ~parsePlayerAgePoll(p).threw /\ parsePlayerAgePoll(p).value # None
GoodNumPlayersPoll == CHOOSE p \in NumPlayersPolls :
                        /\ p.results # None
                        /\ \A i \in 1..Len(p.results[1]) :
                              p.results[1][i].resultItemList # None

PollLists ==
  {None, Some(<<>>)}
    \cup { Some(<<GoodNumPlayersPoll, a>>) : a \in AgePolls }
    \cup { Some(<<n, GoodAgePoll>>) : n \in NumPlayersPolls }

LinkLists ==
  { None,
    Some(<<[type |-> "boardgamecategory", value |-> "Economic"],
           [type |-> "boardgamemechanic", value |-> "Auction"],
           [type |-> "boardgamecategory", value |-> "Trains"]>>) }

StatisticsOpts ==
  { None,
    Some([ratings |-> [average |-> 7, bayesaverage |-> 6, stddev |-> 1,
                       averageweight |-> 2]]) }

\* A returned item for identifier id
RawItem(id, shape) ==
  [id |-> id, polls |-> shape.polls, links |-> shape.links,
   statistics |-> shape.statistics,
   minplayers |-> 1, maxplayers |-> 4, minage |-> 8]

\* The shapes of item a response is drawn from: every poll list with the
\* tag links and statistics present, and each of these absent in turn.
ItemShapes ==
  LET links == CHOOSE l \in LinkLists : l # None
      statistics == CHOOSE st \in StatisticsOpts : st # None
      polls == Some(<<GoodNumPlayersPoll, GoodAgePoll>>)
  IN { [polls |-> p, links |-> links, statistics |-> statistics] :
         p \in PollLists }
     \cup { [polls |-> polls, links |-> None, statistics |-> statistics],
            [polls |-> polls, links |-> links, statistics |-> None],
            [polls |-> None, links |-> None, statistics |-> None] }

\* Latency of one remote call, in ms
Latencies == {1000, 6000}

\* ------------------------------------------------------- the key source
\* Row i of the CSV file; its id column is 100 + i.
Rows(n) == [i \in 1..n |-> [id |-> 100 + i]]

\* Array.prototype.splice(0, deleteCount): the removed prefix, and what is
\* left in the array.  SplicedShort is a variant that returns one row less
\* than it removes.
SplicedShort(array, deleteCount) ==
  SubSeq(array, 1, Min(Max(deleteCount - 1, 0), Len(array)))
Spliced(array, deleteCount) ==
  SubSeq(array, 1, Min(Max(deleteCount, 0), Len(array)))
Remaining(array, deleteCount) ==
  SubSeq(array, Min(Max(deleteCount, 0), Len(array)) + 1, Len(array))

\* batch.map(row => row.id)
Ids(rows) == [i \in 1..Len(rows) |-> rows[i].id]

\* ================================================================ state
VARIABLES
  input,             \* the rows of the key source as read (l.299)
  batchSize,         \* l.11 / --batchsize
  skipBatchCount,    \* l.10 / --skip (None when the option is not given)
  debug,             \* l.9 / --debug
  client,            \* generation of the remote client handle (l.296, 366)
  df,                \* df.value: the rows not yet taken
  batch,             \* the batch being worked on
  currentBatchCount, \* l.306
  totalBatchCount,   \* l.303
  stats,             \* the Stats record (l.323)
  start,             \* performance.now() at the top of the iteration
  timeTaken,         \* l.376
  things,            \* the items returned by the last fetch
  games,             \* things.map(parseGame), evaluated as the fetch returns
  pc,                \* where the script is
  now,               \* the clock, ms
  fetches,           \* every client.thing.query issued, with its outcome
                     \* and the files written and batches counted so far
  taken,             \* every result of df.value.splice(0, batchSize)
  outputs,           \* batch_<k>.json files written
  rawOutputs,        \* batch_<k>-raw.json files written (debug)
  statsFile,         \* what the exit listener wrote to the stats file
  polls,             \* thing.polls of an item handed to a poll scorer
  recs,              \* what the scorer made of it: [by, threw, value]
  top                \* what getTopRecommendation made of recs.value

config == <<input, batchSize, skipBatchCount, debug, totalBatchCount>>
scorer == <<polls, recs, top>>
vars == <<input, batchSize, skipBatchCount, debug, client, df, batch,
          currentBatchCount, totalBatchCount, stats, start, timeTaken,
          things, games, pc, now, fetches, taken, outputs, rawOutputs, statsFile,
          polls, recs, top>>

Running == {"loop", "fetching", "retry", "write", "pacing"}

\* Variant of StartCount that forgets the take of l.316 after a skip.
StartCountNoTake(s) == IF s = None THEN 1 ELSE s[1]

\* l.306-316: currentBatchCount when the loop is entered.
StartCount(s) == (IF s = None THEN 0 ELSE s[1]) + 1

\* State after l.296-338 for a key source of n rows and the given options.
Init ==
  \E n \in 0..MaxRows, b \in 1..MaxBatchSize, d \in BOOLEAN,
     s \in {None} \cup {Some(k) : k \in 0..MaxSkip} :
    LET rows == Rows(n)
        afterSkip == IF s = None THEN rows ELSE Remaining(rows, s[1] * b)
        first == Spliced(afterSkip, b)
        count == StartCount(s)
    IN /\ input = rows
       /\ batchSize = b
       /\ skipBatchCount = s
       /\ debug = d
       /\ client = 0
       /\ totalBatchCount = MathCeil(n, b)
       /\ df = Remaining(afterSkip, b)
       /\ batch = first
       /\ currentBatchCount = count
       /\ stats = [start |-> 0, end |-> None, batchSize |-> b,
                   availableBatches |-> MathCeil(n, b),
                   startingBatch |-> count, batchesProcessed |-> 0,
                   averageTimePerBatch |-> [num |-> 0, den |-> 1],
                   errors |-> <<>>]
       /\ start = 0
       /\ timeTaken = 0
       /\ things = <<>>
       /\ games = Mapped(<<>>)
       /\ pc = "loop"
       /\ now = 0
       /\ fetches = <<>>
       /\ taken = <<first>>
       /\ outputs = <<>>
       /\ rawOutputs = <<>>
       /\ statsFile = <<>>
       /\ polls = None
       /\ recs = [by |-> "none", threw |-> FALSE, value |-> None]
       /\ top = None

\* The "exit" listener (l.334-338): stamps stats.end and writes the record.
ExitListener(st, t) == [st EXCEPT !.end = Some(t)]

\* The outcome of the fetch in flight, recorded in the log
Resolve(log, result, t) ==
  [log EXCEPT ![Len(log)].result = result, ![Len(log)].doneAt = t]

\* l.340 with an empty batch: the loop ends, the script returns and the
\* process exits with the "exit" listener run.
LoopExit ==
  /\ pc = "loop"
  /\ Len(batch) = 0
  /\ pc' = "done"
  /\ stats' = ExitListener(stats, now)
  /\ statsFile' = Append(statsFile, stats')
  /\ UNCHANGED <<config, scorer, client, df, batch, currentBatchCount, start,
                 timeTaken, things, games, now, fetches, taken, outputs, rawOutputs>>

\* The entry of the request log for a request issued now
Request ==
  [k |-> currentBatchCount, ids |-> Ids(batch), at |-> now,
   client |-> client, result |-> "pending", doneAt |-> now,
   written |-> Len(outputs), processed |-> stats.batchesProcessed]

\* Variant of IssueFetch that does not wait for the pacing sleep.
IssueFetchEarly ==
  /\ pc \in {"loop", "pacing"}
  /\ Len(batch) > 0
  /\ start' = now
  /\ currentBatchCount' =
       IF pc = "pacing" THEN currentBatchCount + 1 ELSE currentBatchCount
  /\ fetches' = Append(fetches, [Request EXCEPT !.k = currentBatchCount'])
  /\ pc' = "fetching"
  /\ UNCHANGED <<config, scorer, client, df, batch, stats,
                 timeTaken, things, games, now, outputs, rawOutputs, taken,
                 statsFile>>

\* l.340-353: a non-empty batch; the request for its ids is issued.
IssueFetch ==
  /\ pc = "loop"
  /\ Len(batch) > 0
  /\ start' = now
  /\ fetches' = Append(fetches, Request)
  /\ pc' = "fetching"
  /\ UNCHANGED <<config, scorer, client, df, batch, currentBatchCount, stats,
                 timeTaken, things, games, now, outputs, rawOutputs, taken,
                 statsFile>>

\* Variant of FetchThrows that gives the batch up and takes the next one.
FetchThrowsAdvances ==
  /\ pc = "fetching"
  /\ Cardinality({i \in 1..Len(fetches) : fetches[i].result = "throw"})
       < MaxThrows
  /\ \E lat \in Latencies :
       /\ now' = now + lat
       /\ fetches' = Resolve(fetches, "throw", now + lat)
  /\ stats' = [stats EXCEPT !.errors =
                 Append(@, [ids |-> Ids(batch), error |-> "Error fetching batch"])]
  /\ client' = client + 1
  /\ batch' = Spliced(df, batchSize)
  /\ df' = Remaining(df, batchSize)
  /\ taken' = Append(taken, batch')
  /\ pc' = "retry"
  /\ UNCHANGED <<config, scorer, currentBatchCount, start, timeTaken,
                 things, games, outputs, rawOutputs, statsFile>>

\* Variant of FetchThrows that counts the failed batch as processed.
FetchThrowsCounts ==
  /\ pc = "fetching"
  /\ Cardinality({i \in 1..Len(fetches) : fetches[i].result = "throw"})
       < MaxThrows
  /\ \E lat \in Latencies :
       /\ now' = now + lat
       /\ fetches' = Resolve(fetches, "throw", now + lat)
  /\ stats' = [stats EXCEPT
                 !.batchesProcessed = @ + 1,
                 !.errors =
                    Append(@, [ids |-> Ids(batch),
                               error |-> "Error fetching batch"])]
  /\ client' = client + 1
  /\ pc' = "retry"
  /\ UNCHANGED <<config, scorer, df, batch, currentBatchCount, start,
                 timeTaken, things, games, taken, outputs, rawOutputs, statsFile>>

\* Variant of FetchThrows that does not record the failure.
FetchThrowsNoRecord ==
  /\ pc = "fetching"
  /\ Cardinality({i \in 1..Len(fetches) : fetches[i].result = "throw"})
       < MaxThrows
  /\ \E lat \in Latencies :
       /\ now' = now + lat
       /\ fetches' = Resolve(fetches, "throw", now + lat)
  /\ client' = client + 1
  /\ pc' = "retry"
  /\ UNCHANGED <<config, scorer, df, batch, currentBatchCount, stats, start,
                 timeTaken, things, games, taken, outputs, rawOutputs, statsFile>>

\* l.359-368: the call raises; the error is recorded, the client recreated
\* and the script sleeps.
FetchThrows ==
  /\ pc = "fetching"
  /\ Cardinality({i \in 1..Len(fetches) : fetches[i].result = "throw"})
       < MaxThrows
  /\ \E lat \in Latencies :
       /\ now' = now + lat
       /\ fetches' = Resolve(fetches, "throw", now + lat)
  /\ stats' = [stats EXCEPT !.errors =
                 Append(@, [ids |-> Ids(batch), error |-> "Error fetching batch"])]
  /\ client' = client + 1
  /\ pc' = "retry"
  /\ UNCHANGED <<config, scorer, df, batch, currentBatchCount, start, timeTaken,
                 things, games, taken, outputs, rawOutputs, statsFile>>

\* l.367-368: Bun.sleep(sleepTime) is over; continue with the same batch.
RetryWake ==
  /\ pc = "retry"
  /\ now' = now + sleepTime
  /\ pc' = "loop"
  /\ UNCHANGED <<config, scorer, client, df, batch, currentBatchCount, stats, start,
                 timeTaken, things, games, fetches, taken, outputs, rawOutputs,
                 statsFile>>

\* Variant of FetchEmpty that handles the empty result as the catch block
\* handles a raised error.
FetchEmptyRetries ==
  /\ pc = "fetching"
  /\ Len(stats.errors) < MaxThrows
  /\ \E lat \in Latencies :
       /\ now' = now + lat
       /\ fetches' = Resolve(fetches, "empty", now + lat)
  /\ stats' = [stats EXCEPT !.errors =
                 Append(@, [ids |-> Ids(batch),
                            error |-> "No data returned from BGG API"])]
  /\ client' = client + 1
  /\ pc' = "retry"
  /\ UNCHANGED <<config, scorer, df, batch, currentBatchCount, start, timeTaken,
                 things, games, taken, outputs, rawOutputs, statsFile>>

\* l.354-358: the call returns undefined, null or an empty list; the error
\* is recorded and things becomes the empty list.
FetchEmpty ==
  /\ pc = "fetching"
  /\ \E lat \in Latencies :
       /\ now' = now + lat
       /\ fetches' = Resolve(fetches, "empty", now + lat)
  /\ stats' = [stats EXCEPT !.errors =
                 Append(@, [ids |-> Ids(batch),
                            error |-> "No data returned from BGG API"])]
  /\ things' = <<>>
  /\ games' = Mapped(things')
  /\ pc' = "write"
  /\ UNCHANGED <<config, scorer, client, df, batch, currentBatchCount, start,
                 timeTaken, taken, outputs, rawOutputs, statsFile>>

\* l.346-353: the call returns one item per id.
FetchOk ==
  /\ pc = "fetching"
  /\ \E lat \in Latencies :
       /\ now' = now + lat
       /\ fetches' = Resolve(fetches, "ok", now + lat)
  /\ \E shape \in ItemShapes :
       things' = [i \in 1..Len(batch) |-> RawItem(batch[i].id, shape)]
  /\ games' = Mapped(things')
  /\ pc' = "write"
  /\ UNCHANGED <<config, scorer, client, df, batch, currentBatchCount, stats, start,
                 timeTaken, taken, outputs, rawOutputs, statsFile>>

\* l.372: things.map(parseGame) raises; nothing catches it, the process
\* ends with the "exit" listener run.
WriteFault ==
  /\ pc = "write"
  /\ games.threw
  /\ pc' = "faulted"
  /\ stats' = ExitListener(stats, now)
  /\ statsFile' = Append(statsFile, stats')
  /\ UNCHANGED <<config, scorer, client, df, batch, currentBatchCount, start,
                 timeTaken, things, games, now, fetches, taken, outputs, rawOutputs>>

\* Variant of NextAverage that weighs the old average by n.
NextAverageHeavy(avg, n, duration) ==
  [num |-> avg.num * n + duration * avg.den, den |-> avg.den * n]

\* l.377-379: the running average, kept as the fraction num / den.
NextAverage(avg, n, duration) ==
  [num |-> avg.num * (n - 1) + duration * avg.den, den |-> avg.den * n]

\* Variant of WriteBatch whose debug branch writes the raw file and goes on
\* with the loop.
WriteBatchDebugContinues ==
  /\ pc = "write"
  /\ ~games.threw
  /\ outputs' = Append(outputs,
                  [k |-> currentBatchCount, attempt |-> Len(fetches),
                   ids |-> [i \in 1..Len(games.value) |->
                              games.value[i].id]])
  /\ batch' = Spliced(df, batchSize)
  /\ df' = Remaining(df, batchSize)
  /\ taken' = Append(taken, batch')
  /\ timeTaken' = now - start
  /\ stats' = [stats EXCEPT
                 !.batchesProcessed = @ + 1,
                 !.averageTimePerBatch =
                    NextAverage(@, stats.batchesProcessed + 1, now - start)]
  /\ rawOutputs' = IF debug
                   THEN Append(rawOutputs,
                          [k |-> currentBatchCount,
                           ids |-> [i \in 1..Len(things) |-> things[i].id]])
                   ELSE rawOutputs
  /\ statsFile' = statsFile
  /\ IF now - start < timeBetweenRequests
     THEN pc' = "pacing" /\ currentBatchCount' = currentBatchCount
     ELSE pc' = "loop" /\ currentBatchCount' = currentBatchCount + 1
  /\ things' = <<>>
  /\ games' = Mapped(things')
  /\ UNCHANGED <<config, scorer, client, start, now, fetches>>

\* l.370-404: the output file is written, the next batch taken and the
\* statistics updated; then the debug exit, the pacing sleep, or the next
\* iteration.  A file write completes together with the synchronous code
\* that follows it.
WriteBatch ==
  /\ pc = "write"
  /\ ~games.threw
  /\ outputs' = Append(outputs,
                  [k |-> currentBatchCount, attempt |-> Len(fetches),
                   ids |-> [i \in 1..Len(games.value) |->
                              games.value[i].id]])
  /\ batch' = Spliced(df, batchSize)
  /\ df' = Remaining(df, batchSize)
  /\ taken' = Append(taken, batch')
  /\ timeTaken' = now - start
  /\ LET st == [stats EXCEPT
                  !.batchesProcessed = @ + 1,
                  !.averageTimePerBatch =
                     NextAverage(@, stats.batchesProcessed + 1, now - start)]
     IN IF debug
        THEN /\ rawOutputs' = Append(rawOutputs,
                                [k |-> currentBatchCount,
                                 ids |-> [i \in 1..Len(things) |-> things[i].id]])
             /\ stats' = ExitListener(st, now)
             /\ statsFile' = Append(statsFile, stats')
             /\ pc' = "exited"
             /\ currentBatchCount' = currentBatchCount
        ELSE /\ rawOutputs' = rawOutputs
             /\ stats' = st
             /\ statsFile' = statsFile
             /\ IF now - start < timeBetweenRequests
                THEN pc' = "pacing" /\ currentBatchCount' = currentBatchCount
                ELSE pc' = "loop" /\ currentBatchCount' = currentBatchCount + 1
  /\ things' = <<>>
  /\ games' = Mapped(things')
  /\ UNCHANGED <<config, scorer, client, start, now, fetches>>

\* Variant of PaceWake without the increment of l.405.
PaceWakeNoCount ==
  /\ pc = "pacing"
  /\ now' = now + (timeBetweenRequests - timeTaken)
  /\ pc' = "loop"
  /\ UNCHANGED <<config, scorer, client, df, batch, currentBatchCount, stats, start,
                 timeTaken, things, games, fetches, taken, outputs, rawOutputs,
                 statsFile>>

\* Variant of PaceWake that sleeps for the elapsed time instead of the
\* remaining time.
PaceWakeElapsed ==
  /\ pc = "pacing"
  /\ now' = now + timeTaken
  /\ currentBatchCount' = currentBatchCount + 1
  /\ pc' = "loop"
  /\ UNCHANGED <<config, scorer, client, df, batch, stats, start, timeTaken, things, games,
                 fetches, taken, outputs, rawOutputs, statsFile>>

\* l.403-405: the pacing sleep is over.
PaceWake ==
  /\ pc = "pacing"
  /\ now' = now + (timeBetweenRequests - timeTaken)
  /\ currentBatchCount' = currentBatchCount + 1
  /\ pc' = "loop"
  /\ UNCHANGED <<config, scorer, client, df, batch, stats, start, timeTaken, things, games,
                 fetches, taken, outputs, rawOutputs, statsFile>>

\* The process is killed by a signal.  The script listens to "exit" only
\* (l.334); it installs no signal listener, and a process terminated by a
\* signal does not emit "exit".
Signal ==
  /\ pc \in Running
  /\ pc' = "killed"
  /\ UNCHANGED <<config, scorer, client, df, batch, currentBatchCount, stats, start,
                 timeTaken, things, games, now, fetches, taken, outputs, rawOutputs,
                 statsFile>>

Next ==
  \/ LoopExit
  \/ IssueFetch
  \/ FetchThrows
  \/ RetryWake
  \/ FetchEmpty
  \/ FetchOk
  \/ WriteFault
  \/ WriteBatch
  \/ PaceWake
  \/ Signal

Spec == Init /\ [][Next]_vars

\* The run of a process that no signal kills: the script takes its next
\* step whenever it can, the remote answers every request, and an answer
\* that is not an error comes whenever it stays possible.
LoopNext ==
  \/ LoopExit
  \/ IssueFetch
  \/ FetchThrows
  \/ RetryWake
  \/ FetchEmpty
  \/ FetchOk
  \/ WriteFault
  \/ WriteBatch
  \/ PaceWake

LiveSpec ==
  /\ Init
  /\ [][LoopNext]_vars
  /\ WF_vars(LoopNext)
  /\ SF_vars(FetchEmpty \/ FetchOk)

\* ====================================================== the poll scorers
\* A second specification applies the scorers and the top pick to polls and
\* recommendation lists drawn from bounded sets; the loop does not run.

\* An age poll with the given totalvotes and results
AgePoll(total, results) ==
  [name |-> "suggested_playerage", totalvotes |-> total, results |-> results]

\* A result group; numplayers is set for the player-count poll only
Group(numplayers, resultItemList) ==
  [numplayers |-> numplayers, resultItemList |-> resultItemList]

AgeResults ==
  {None, Some(<<>>), Some(<<Group(None, None)>>),
   Some(<<Group(None, Some(<<Vote("8", 1)>>)), Group(None, None)>>)}
    \cup { Some(<<Group(None, Some(<<Vote("8", v1), Vote("10", v2),
                                     [value |-> "12", numvotes |-> None]>>))>>) :
             v1 \in 0..MaxAgeVotes, v2 \in 0..1 }

\* thing.polls for the age scorer
AgePollInputs ==
  {None, Some(<<>>), Some(<<GoodNumPlayersPoll>>)}
    \cup { Some(<<GoodNumPlayersPoll, AgePoll(total, results)>>) :
             total \in {None} \cup {Some(t) : t \in 0..MaxTotalVotes},
             results \in AgeResults }

PlayersPoll(results) ==
  [name |-> "suggested_numplayers", totalvotes |-> Some(0),
   results |-> results]

\* One group with the three options, and an option the scorer does not know
VotedGroup(n, best, recommended, notRecommended) ==
  Group(Some(n), Some(<<Vote("Best", best), Vote("Recommended", recommended),
                        Vote("Not Recommended", notRecommended),
                        Vote("Undecided", 1)>>))

PlayersResults ==
  {None, Some(<<>>), Some(<<Group(Some(1), None)>>),
   Some(<<Group(None, Some(<<Vote("Best", 1)>>))>>)}
    \cup { Some(<<VotedGroup(1, b, r, n)>>) :
             b \in 0..MaxVotes, r \in 0..MaxVotes, n \in 0..MaxVotes }
    \cup { Some(<<VotedGroup(1, b, 0, n), VotedGroup(2, 1, 1, 0)>>) :
             b \in 0..MaxVotes, n \in 0..MaxVotes }

\* thing.polls for the player-count scorer
PlayersPollInputs ==
  {None, Some(<<>>), Some(<<GoodAgePoll>>)}
    \cup { Some(<<GoodAgePoll, PlayersPoll(results)>>) :
             results \in PlayersResults }

\* Recommendation lists handed directly to getTopRecommendation: up to
\* MaxRecs entries, the value of an entry being its position.
RecScores == {0, 10, 30}
RecLists ==
  {None}
    \cup UNION { { Some([i \in 1..len |-> [value |-> i, score |-> f[i]]]) :
                     f \in [1..len -> RecScores] } : len \in 0..MaxRecs }

ScoreInit ==
  /\ input = <<>>
  /\ batchSize = 1
  /\ skipBatchCount = None
  /\ debug = FALSE
  /\ client = 0
  /\ totalBatchCount = 0
  /\ df = <<>>
  /\ batch = <<>>
  /\ currentBatchCount = 1
  /\ stats = [start |-> 0, end |-> None, batchSize |-> 1,
              availableBatches |-> 0, startingBatch |-> 1,
              batchesProcessed |-> 0,
              averageTimePerBatch |-> [num |-> 0, den |-> 1],
              errors |-> <<>>]
  /\ start = 0
  /\ timeTaken = 0
  /\ things = <<>>
  /\ games = Mapped(<<>>)
  /\ now = 0
  /\ fetches = <<>>
  /\ taken = <<>>
  /\ outputs = <<>>
  /\ rawOutputs = <<>>
  /\ statsFile = <<>>
  /\ top = None
  /\ \/ /\ pc = "age"
        /\ polls \in AgePollInputs
        /\ recs = [by |-> "none", threw |-> FALSE, value |-> None]
     \/ /\ pc = "players"
        /\ polls \in PlayersPollInputs
        /\ recs = [by |-> "none", threw |-> FALSE, value |-> None]
     \/ /\ pc = "scored"
        /\ polls = None
        /\ \E list \in RecLists :
             recs = [by |-> "given", threw |-> FALSE, value |-> list]

loopState == <<client, df, batch, currentBatchCount, stats, start, timeTaken,
               things, games, now, fetches, taken, outputs, rawOutputs, statsFile>>

\* l.246: const agePoll = calculateRecommendedAgeScore(thing.polls)
ScoreAge ==
  /\ pc = "age"
  /\ LET r == calculateRecommendedAgeScore(polls)
     IN recs' = [by |-> "age", threw |-> r.threw, value |-> r.value]
  /\ pc' = "scored"
  /\ UNCHANGED <<config, loopState, polls, top>>

\* l.245: const playerCountPoll = calculateRecommendedPlayerCountScore(...)
ScorePlayers ==
  /\ pc = "players"
  /\ recs' = [by |-> "players", threw |-> FALSE,
              value |-> calculateRecommendedPlayerCountScore(polls)]
  /\ pc' = "scored"
  /\ UNCHANGED <<config, loopState, polls, top>>

\* l.282, 287: getTopRecommendation(...) of the scorer's list
PickTop ==
  /\ pc = "scored"
  /\ ~recs.threw
  /\ top' = getTopRecommendation(recs.value)
  /\ pc' = "picked"
  /\ UNCHANGED <<config, loopState, polls, recs>>

ScoreNext == ScoreAge \/ ScorePlayers \/ PickTop

ScoreSpec == ScoreInit /\ [][ScoreNext]_vars

\* =========================================================== properties
SkipN == IF skipBatchCount = None THEN 0 ELSE skipBatchCount[1]

\* The ids of batch k of the full input (1-based, skipped batches counted)
BatchIds(k) ==
  Ids(SubSeq(input, (k - 1) * batchSize + 1, Min(k * batchSize, Len(input))))

Failed(f) == f.result \in {"throw", "empty"}

\* C1: after a fetch that raised a transport error, the next fetch is for
\* the same identifier list under the same batch index, with a recreated
\* client and not before the retry delay has elapsed; while the retry is
\* pending the batch and its index are kept and the loop is not left.
C1_RetrySameBatch ==
  /\ \A i \in 1..Len(fetches) - 1 :
       fetches[i].result = "throw" =>
         /\ fetches[i + 1].ids = fetches[i].ids
         /\ fetches[i + 1].k = fetches[i].k
         /\ fetches[i + 1].client = fetches[i].client + 1
         /\ fetches[i + 1].at >= fetches[i].doneAt + sleepTime
  /\ (fetches # <<>> /\ fetches[Len(fetches)].result = "throw") =>
       /\ pc \in {"retry", "loop", "killed"}
       /\ Ids(batch) = fetches[Len(fetches)].ids
       /\ currentBatchCount = fetches[Len(fetches)].k
       /\ client = fetches[Len(fetches)].client + 1

\* Two consecutive failures of one batch, followed by its third request
C1_Witness ==
  /\ Len(fetches) >= 3
  /\ fetches[1].result = "throw"
  /\ fetches[2].result = "throw"

\* C2 as stated: after an empty or absent result the same batch is fetched
\* again with a replaced client.
C2_EmptyRetriesSameBatch ==
  \A i \in 1..Len(fetches) - 1 :
    fetches[i].result = "empty" =>
      /\ fetches[i + 1].k = fetches[i].k
      /\ fetches[i + 1].ids = fetches[i].ids
      /\ fetches[i + 1].client = fetches[i].client + 1

\* C2 amended: after an empty or absent result the batch's output file is
\* written with an empty list, and the next fetch is for the next batch,
\* with the same client, after the pacing delay.
C2_EmptyAdvances ==
  \A i \in 1..Len(fetches) :
    fetches[i].result = "empty" =>
      /\ (i < Len(fetches) \/ pc \in {"pacing", "loop", "done", "exited"}) =>
           \E j \in 1..Len(outputs) :
             /\ outputs[j].attempt = i
             /\ outputs[j].k = fetches[i].k
             /\ outputs[j].ids = <<>>
      /\ i < Len(fetches) =>
           /\ fetches[i + 1].k = fetches[i].k + 1
           /\ fetches[i + 1].ids = BatchIds(fetches[i].k + 1)
           /\ fetches[i + 1].ids # fetches[i].ids
           /\ fetches[i + 1].client = fetches[i].client
           /\ fetches[i + 1].at >= fetches[i].at + timeBetweenRequests

C2_Witness ==
  \E i \in 1..Len(fetches) - 1 : fetches[i].result = "empty"

\* C3: the batches taken are contiguous, non-overlapping slices of the
\* input in input order, each of batchSize rows except possibly the last
\* non-empty one; with the rows still queued they make up exactly the
\* input after the skipped prefix; totalBatchCount is ceil(N / batchSize).
C3_BatchesPartitionInput ==
  LET n == Len(input)
      skipped == Min(SkipN * batchSize, n)
  IN /\ totalBatchCount * batchSize >= n
     /\ totalBatchCount = 0 \/ (totalBatchCount - 1) * batchSize < n
     /\ totalBatchCount = 0 => n = 0
     /\ \A j \in 1..Len(taken) :
          /\ taken[j] = SubSeq(input, skipped + (j - 1) * batchSize + 1,
                               Min(skipped + j * batchSize, n))
          /\ Len(taken[j]) <= batchSize
          /\ Len(taken[j]) < batchSize =>
               /\ df = <<>>
               /\ \A m \in j + 1..Len(taken) : taken[m] = <<>>
     /\ df = SubSeq(input, Min(skipped + Len(taken) * batchSize, n) + 1, n)
     /\ pc = "done" =>
          /\ df = <<>>
          /\ taken[Len(taken)] = <<>>

\* 3 rows in batches of 2: takes of 2, 1 and 0 rows
C3_Witness ==
  /\ pc = "done"
  /\ Len(input) = 3
  /\ batchSize = 2
  /\ skipBatchCount = None
  /\ Len(taken) = 3
  /\ Len(taken[2]) = 1

\* C4: with skip = n the first batch fetched starts at input row
\* n * batchSize + 1 and carries index n + 1 in the request, in the name of
\* the first output file and in stats.startingBatch.
C4_FirstBatchAfterSkip ==
  /\ stats.startingBatch = SkipN + 1
  /\ fetches # <<>> =>
       /\ fetches[1].k = SkipN + 1
       /\ fetches[1].ids[1] = input[SkipN * batchSize + 1].id
       /\ fetches[1].ids = BatchIds(SkipN + 1)
  /\ outputs # <<>> => outputs[1].k = SkipN + 1

\* skip = 1 with batches of 2 on 3 rows: the first file is batch_2
C4_Witness ==
  /\ skipBatchCount = Some(1)
  /\ batchSize = 2
  /\ Len(input) = 3
  /\ outputs # <<>>
  /\ fetches[1].ids = <<103>>

\* C5: however the run ends, the stats record is written exactly once, with
\* its end stamped at that moment; before the end of the run it is unwritten
\* and end is unset.
C5_SummaryWrittenOnce ==
  /\ pc \in Running => stats.end = None /\ statsFile = <<>>
  /\ pc \notin Running =>
       /\ Len(statsFile) = 1
       /\ stats.end = Some(now)
       /\ statsFile[1] = stats

\* C6: stats.errors holds exactly one entry per failed attempt, in order,
\* with the ids of the batch attempted; and a batch whose fetch raised has
\* been fetched again before the loop is done.
C6_ErrorsMatchFailedAttempts ==
  LET failed == SelectSeq(fetches, Failed)
  IN /\ Len(stats.errors) = Len(failed)
     /\ \A j \in 1..Len(failed) : stats.errors[j].ids = failed[j].ids
     /\ pc = "done" =>
          \A i \in 1..Len(fetches) :
            fetches[i].result = "throw" =>
              /\ i < Len(fetches)
              /\ fetches[i + 1].k = fetches[i].k
              /\ \E j \in i + 1..Len(fetches) :
                   /\ fetches[j].k = fetches[i].k
                   /\ fetches[j].ids = fetches[i].ids
                   /\ fetches[j].result # "throw"

\* One transport failure on batch 2 of 3, and the run done
C6_Witness ==
  /\ pc = "done"
  /\ totalBatchCount = 3
  /\ skipBatchCount = None
  /\ Len(fetches) = 4
  /\ fetches[2].k = 2
  /\ fetches[2].result = "throw"
  /\ fetches[3].k = 2
  /\ Len(stats.errors) = 1
  /\ stats.errors[1].ids = BatchIds(2)

DistinctOutputs ==
  \A a, b \in 1..Len(outputs) : a # b => outputs[a].k # outputs[b].k

\* C7 as stated: every output file comes from a successful attempt, at most
\* one per index, and no attempt recorded in stats.errors produces a file.
C7_OutputOnlyOnSuccess ==
  /\ DistinctOutputs
  /\ \A j \in 1..Len(outputs) :
       /\ outputs[j].k = fetches[outputs[j].attempt].k
       /\ fetches[outputs[j].attempt].ids = BatchIds(outputs[j].k)
       /\ ~Failed(fetches[outputs[j].attempt])

\* C7 amended: every output file batch_k comes from an attempt on batch k
\* that returned, at most one per index, k counting from 1 over the full
\* input; an attempt that raised produces no file, an attempt that returned
\* nothing produces the file with an empty list.
C7_OutputPerReturnedBatch ==
  /\ DistinctOutputs
  /\ \A j \in 1..Len(outputs) :
       LET f == fetches[outputs[j].attempt]
       IN /\ outputs[j].k = f.k
          /\ f.ids = BatchIds(outputs[j].k)
          /\ f.result \in {"ok", "empty"}
          /\ f.result = "ok" => outputs[j].ids = f.ids
          /\ f.result = "empty" => outputs[j].ids = <<>>

\* Two files written, one of them after a raised error and one for an
\* empty result
C7_Witness ==
  /\ Len(outputs) >= 2
  /\ \E i \in 1..Len(fetches) : fetches[i].result = "throw"
  /\ \E j \in 1..Len(outputs) : fetches[outputs[j].attempt].result = "empty"
  /\ \E j \in 1..Len(outputs) : fetches[outputs[j].attempt].result = "ok"

C9_DebugSingleBatch ==
  /\ debug =>
       /\ Len(outputs) <= 1
       /\ stats.batchesProcessed <= 1
       /\ outputs # <<>> =>
            /\ pc = "exited"
            /\ Len(rawOutputs) = 1
            /\ rawOutputs[1].k = outputs[1].k
            /\ rawOutputs[1].ids = outputs[1].ids
            /\ outputs[1].attempt = Len(fetches)
       /\ pc = "exited" =>
            /\ Len(outputs) = 1
            /\ stats.batchesProcessed = 1
            /\ Len(statsFile) = 1
            /\ statsFile[1].batchesProcessed = 1
  /\ ~debug => rawOutputs = <<>> /\ pc # "exited"

\* A debug run that exits with rows left in the queue
C9_Witness ==
  /\ debug
  /\ pc = "exited"
  /\ df # <<>>
  /\ Len(input) > batchSize

\* C10: parseGame does not raise for an item whose optional nested fields
\* are missing, so no item shape ends the ingestion loop.
C10_ParseGameNeverThrows ==
  /\ \A i \in 1..Len(things) : ~parseGame(things[i]).threw
  /\ pc # "faulted"

\* ------------------------------------------------- the scorers' claims
\* The votes of the options of that name in an option list
RECURSIVE SumVotes(_, _)
SumVotes(options, name) ==
  IF options = <<>> THEN 0
  ELSE (IF options[1].value = name /\ options[1].numvotes # None
        THEN options[1].numvotes[1] ELSE 0)
       + SumVotes(Tail(options), name)

GroupVotes(g) ==
  SumVotes(g.resultItemList[1], "Best")
    + SumVotes(g.resultItemList[1], "Recommended")
    + SumVotes(g.resultItemList[1], "Not Recommended")

\* Twice the tally Best + 0.5 * Recommended - 0.5 * Not Recommended
Tally2(g) ==
  2 * SumVotes(g.resultItemList[1], "Best")
    + SumVotes(g.resultItemList[1], "Recommended")
    - SumVotes(g.resultItemList[1], "Not Recommended")

Scorable(g) ==
  g.numplayers # None /\ g.resultItemList # None /\ GroupVotes(g) > 0

\* C11: the player-count scorer emits, for every group with accumulated
\* votes and for no other, a recommendation whose score is the integer
\* max(0, round(100 * tally / groupVotes)), which lies in 0..100.
C11_PlayerCountScores ==
  (recs.by = "players" /\ recs.value # None) =>
    LET poll == FindPoll(polls[1], "suggested_numplayers")[1]
        groups == SelectSeq(poll.results[1], Scorable)
        list == recs.value[1]
    IN /\ Len(list) = Len(groups)
       /\ \A i \in 1..Len(list) :
            /\ list[i].value = groups[i].numplayers[1]
            /\ list[i].score \in 0..100
            /\ list[i].score =
                 Max(0, MathRound(100 * Tally2(groups[i]),
                                  2 * GroupVotes(groups[i])))

\* C12: the top pick is absent exactly when the list is absent, empty or
\* all of score 0; otherwise it is the element of the list at the least
\* position that holds the maximum score.
C12_TopIsFirstMaximum ==
  pc = "picked" =>
    LET absent == \/ recs.value = None
                  \/ recs.value = Some(<<>>)
                  \/ \A i \in 1..Len(recs.value[1]) :
                       recs.value[1][i].score = 0
    IN /\ top = None <=> absent
       /\ ~absent =>
            \E i \in 1..Len(recs.value[1]) :
              /\ top[1] = recs.value[1][i]
              /\ \A j \in 1..Len(recs.value[1]) :
                   /\ recs.value[1][j].score <= recs.value[1][i].score
                   /\ j < i => recs.value[1][j].score < recs.value[1][i].score

\* <<{1, 10}, {2, 30}, {3, 30}>> gives {2, 30}
C12_Witness ==
  /\ pc = "picked"
  /\ recs.value = Some(<<[value |-> 1, score |-> 10],
                         [value |-> 2, score |-> 30],
                         [value |-> 3, score |-> 30]>>)
  /\ top = Some([value |-> 2, score |-> 30])

\* The options of all groups in source order; a group without an option
\* list has none
RECURSIVE AllOptions(_)
AllOptions(groups) ==
  IF groups = <<>> THEN <<>>
  ELSE (IF groups[1].resultItemList = None THEN <<>>
        ELSE groups[1].resultItemList[1])
       \o AllOptions(Tail(groups))

HasVotes(option) == option.numvotes # None /\ option.numvotes[1] > 0

NamedAge(poll) == poll.name = "suggested_playerage"

\* C13: the age scorer returns absent when no poll is named
\* suggested_playerage, when the poll has no result groups, when totalvotes
\* is 0 or absent, or when no option has votes; otherwise it returns one
\* recommendation per option with votes, in source order.
C13_AgePollResult ==
  recs.by = "age" =>
    LET named == IF polls = None THEN <<>> ELSE SelectSeq(polls[1], NamedAge)
        noGroups == named[1].results = None \/ named[1].results = Some(<<>>)
        noTotal == named[1].totalvotes = None \/ named[1].totalvotes = Some(0)
        voted == SelectSeq(AllOptions(named[1].results[1]), HasVotes)
        absent == named = <<>> \/ noGroups \/ noTotal \/ voted = <<>>
    IN /\ ~recs.threw
       /\ recs.value = None <=> absent
       /\ ~absent =>
            /\ Len(recs.value[1]) = Len(voted)
            /\ \A i \in 1..Len(voted) :
                 recs.value[1][i].value = voted[i].value

\* C14 as stated: every recommendation of the age scorer has a score in
\* 0..100 (a list is only returned for totalvotes > 0).
C14_AgeScoreInRange ==
  (recs.by = "age" /\ recs.value # None) =>
    \A i \in 1..Len(recs.value[1]) : recs.value[1][i].score \in 0..100

\* No option of the age poll has more votes than totalvotes
ConsistentAgePoll ==
  LET poll == SelectSeq(polls[1], NamedAge)[1]
      options == AllOptions(poll.results[1])
  IN \A i \in 1..Len(options) :
       HasVotes(options[i]) => options[i].numvotes[1] <= poll.totalvotes[1]

\* C14 amended: every recommendation of the age scorer has a score in
\* 0..100 when no option has more votes than totalvotes.
C14_AgeScoreInRangeWhenConsistent ==
  (recs.by = "age" /\ recs.value # None /\ ConsistentAgePoll) =>
    \A i \in 1..Len(recs.value[1]) : recs.value[1][i].score \in 0..100

\* 23 and 1 votes of 40: scores 57 and 3
C14_Witness ==
  /\ recs.by = "age"
  /\ recs.value = Some(<<[value |-> "8", score |-> 57],
                         [value |-> "10", score |-> 3]>>)
  /\ ConsistentAgePoll

\* ------------------------------------------------ the loop's bookkeeping
Returned(f) == f.result \in {"ok", "empty"}

\* The attempts among the first n requests that returned
ReturnedUpTo(n) == Cardinality({i \in 1..n : Returned(fetches[i])})

\* C15 as stated: batchesProcessed is the number of batches fetched
\* successfully and written; an attempt recorded in stats.errors does not
\* count.
C15_ProcessedCountsSuccesses ==
  stats.batchesProcessed =
    Cardinality({j \in 1..Len(outputs) :
                   fetches[outputs[j].attempt].result = "ok"})

\* C15 amended: batchesProcessed is the number of output files written, one
\* for each attempt that returned (an empty result included) and has been
\* written; an attempt that raised does not count.
C15_ProcessedCountsReturned ==
  /\ stats.batchesProcessed = Len(outputs)
  /\ \A j \in 1..Len(outputs) : Returned(fetches[outputs[j].attempt])
  /\ ReturnedUpTo(Len(fetches)) \in
       {stats.batchesProcessed, stats.batchesProcessed + 1}
  /\ pc \in {"loop", "fetching", "retry", "pacing", "done", "exited"} =>
       ReturnedUpTo(Len(fetches)) = stats.batchesProcessed

\* A raised error, an empty result and a success: two batches processed
C15_Witness ==
  /\ stats.batchesProcessed = 2
  /\ Len(stats.errors) = 2
  /\ \E i \in 1..Len(fetches) : fetches[i].result = "throw"
  /\ \E i \in 1..Len(fetches) : fetches[i].result = "empty"
  /\ \E i \in 1..Len(fetches) : fetches[i].result = "ok"

\* Every batch after the skipped ones has its output file
AllWritten ==
  \A k \in SkipN + 1..totalBatchCount :
    \E j \in 1..Len(outputs) : outputs[j].k = k

\* C16: a run that is not a debug run reaches Done, with the output of
\* every non-skipped batch written and batchesProcessed their number.
C16_EventuallyDone ==
  ~debug =>
    <>(/\ pc = "done"
       /\ AllWritten
       /\ stats.batchesProcessed = Max(0, totalBatchCount - SkipN))

\* C17: at most one request is outstanding, and it is the last one issued;
\* a request is issued only when the one before it has been answered and,
\* if that one returned, its output has been written, the batch counted
\* and the rest of the request interval idled away.
C17_Sequential ==
  /\ \A i \in 1..Len(fetches) :
       fetches[i].result = "pending" =>
         i = Len(fetches) /\ pc \in {"fetching", "killed"}
  /\ pc = "fetching" => fetches[Len(fetches)].result = "pending"
  /\ \A i \in 1..Len(fetches) :
       /\ fetches[i].written = ReturnedUpTo(i - 1)
       /\ fetches[i].processed = ReturnedUpTo(i - 1)
       /\ i > 1 =>
            /\ fetches[i].at >= fetches[i - 1].doneAt
            /\ Returned(fetches[i - 1]) =>
                 /\ \E j \in 1..fetches[i].written :
                      outputs[j].attempt = i - 1
                 /\ fetches[i].at >= fetches[i - 1].at + timeBetweenRequests

\* Three requests, the second issued after a fast success
C17_Witness ==
  /\ Len(fetches) = 3
  /\ fetches[1].result = "ok"
  /\ fetches[1].doneAt - fetches[1].at < timeBetweenRequests
  /\ fetches[2].result = "throw"
  /\ fetches[3].result = "pending"

\* The durations of the attempts whose output is among the first n files
\* and whose result is one of those counted
RECURSIVE Durations(_, _)
Durations(n, counted) ==
  IF n = 0 THEN 0
  ELSE LET f == fetches[outputs[n].attempt]
       IN (IF f.result \in counted THEN f.doneAt - f.at ELSE 0)
          + Durations(n - 1, counted)

\* C18 as stated: averageTimePerBatch is the mean of the durations of the
\* successful attempts; no attempt recorded as failed changes it.
C18_MeanOfSuccesses ==
  LET n == Cardinality({j \in 1..Len(outputs) :
                          fetches[outputs[j].attempt].result = "ok"})
      avg == stats.averageTimePerBatch
  IN avg.num * n = avg.den * Durations(Len(outputs), {"ok"})

\* C18 amended: averageTimePerBatch is the mean of the durations of the
\* batchesProcessed attempts that returned and were written, an empty
\* result included; an attempt that raised does not change it.
C18_MeanOfReturned ==
  LET avg == stats.averageTimePerBatch
  IN /\ avg.den > 0
     /\ avg.num * stats.batchesProcessed =
          avg.den * Durations(Len(outputs), {"ok", "empty"})
     /\ stats.batchesProcessed = 0 => avg.num = 0

\* Successes of 1000 and 6000 ms around a raised error: the mean is 3500
C18_Witness ==
  /\ stats.batchesProcessed = 2
  /\ \E i \in 1..Len(fetches) : fetches[i].result = "throw"
  /\ Durations(2, {"ok", "empty"}) = 7000
  /\ stats.averageTimePerBatch.num = 3500 * stats.averageTimePerBatch.den

\* C19: every batch index used for a request or an output file lies in
\* skip + 1 .. totalBatchCount, totalBatchCount being the ceiling of the
\* full input length over batchSize; when the skip covers the whole input
\* there is no request and no file.
C19_IndicesInRange ==
  /\ totalBatchCount * batchSize >= Len(input)
  /\ totalBatchCount * batchSize < Len(input) + batchSize
  /\ \A i \in 1..Len(fetches) :
       SkipN < fetches[i].k /\ fetches[i].k <= totalBatchCount
  /\ \A j \in 1..Len(outputs) :
       SkipN < outputs[j].k /\ outputs[j].k <= totalBatchCount
  /\ SkipN * batchSize >= Len(input) =>
       fetches = <<>> /\ outputs = <<>> /\ rawOutputs = <<>>

\* A skip past the last batch: the run is done without a request
C19_Witness ==
  /\ pc = "done"
  /\ Len(input) = 3
  /\ batchSize = 2
  /\ skipBatchCount = Some(2)
  /\ fetches = <<>>
  /\ stats.startingBatch = 3

====
